---- MODULE Spec2Model ----
(***************************************************************************)
(* Model of src/src/utils/supabaseStorage.ts: the date codec, the          *)
(* transaction operations and the budget operations of the storage adapter *)
(* together with the two backend collections they act on.                  *)
(*                                                                         *)
(* Strings that the code inspects character by character (dates, month     *)
(* keys) are sequences of one-character strings, so that split, padStart   *)
(* and the backend's lexicographic comparison are computed, not assumed.   *)
(***************************************************************************)
EXTENDS Integers, Sequences, FiniteSets, Bags, TLC

VARIABLES
  transactions,  \* rows of the backend collection 'transactions'
  nextId,        \* next identifier the backend gives an inserted transaction
  budgets,       \* rows of the backend collection 'budgets' (a bag: row -> count)
  calls,         \* per caller: the saveBudgets call in progress, if any
  seen,          \* per caller: the other caller's insert that landed during its call
  last,          \* what the latest step did and returned to its caller
  parseIn,       \* argument handed to parseDateFromDB
  parseOut       \* value parseDateFromDB returned for it

vars == <<transactions, nextId, budgets, calls, seen, last, parseIn, parseOut>>

(***************************************************************************)
(* Characters and strings                                                  *)
(***************************************************************************)
Digits == <<"0", "1", "2", "3", "4", "5", "6", "7", "8", "9">>

IsDigit(c) == \E i \in 1..10 : Digits[i] = c

DigitVal(c) == CHOOSE i \in 0..9 : Digits[i + 1] = c

\* code unit of a character, the order the backend compares text by
CharCode(c) ==
  IF c = " " THEN 32
  ELSE IF c = "-" THEN 45
  ELSE IF IsDigit(c) THEN 48 + DigitVal(c)
  ELSE 97

RECURSIVE ToStr(_)
\* `${n}` / String(n) of a non-negative integer
ToStr(n) ==
  IF n < 10 THEN <<Digits[n + 1]>>
  ELSE ToStr(n \div 10) \o <<Digits[(n % 10) + 1]>>

RECURSIVE padStart(_, _, _)
\* String.prototype.padStart with a one-character filler
padStart(s, n, c) == IF Len(s) >= n THEN s ELSE padStart(<<c>> \o s, n, c)

RECURSIVE LexLess(_, _)
\* a < b in the lexicographic order on strings
LexLess(a, b) ==
  IF b = <<>> THEN FALSE
  ELSE IF a = <<>> THEN TRUE
  ELSE IF CharCode(Head(a)) # CharCode(Head(b))
       THEN CharCode(Head(a)) < CharCode(Head(b))
  ELSE LexLess(Tail(a), Tail(b))

gte(a, b) == ~LexLess(a, b)

lte(a, b) == ~LexLess(b, a)

(***************************************************************************)
(* Calendar                                                                *)
(***************************************************************************)
IsLeap(y) == (y % 4 = 0 /\ y % 100 # 0) \/ y % 400 = 0

DaysInMonth(y, m) ==
  IF m = 2 THEN (IF IsLeap(y) THEN 29 ELSE 28)
  ELSE IF m \in {4, 6, 9, 11} THEN 30
  ELSE 31

\* offset of Asia/Kolkata from UTC, in minutes
IstOffsetMin == 330

\* the calendar day after (y, m, d)
NextDay(y, m, d) ==
  IF d < DaysInMonth(y, m) THEN [y |-> y, m |-> m, d |-> d + 1]
  ELSE IF m < 12 THEN [y |-> y, m |-> m + 1, d |-> 1]
  ELSE [y |-> y + 1, m |-> 1, d |-> 1]

\* A Date handed to the adapter is an instant: UTC calendar day and minute of day.
\* toLocaleString(..., {timeZone: "Asia/Kolkata"}) gives its wall clock in IST.
ToIST(date) ==
  IF date.min + IstOffsetMin >= 1440
  THEN NextDay(date.y, date.m, date.d)
  ELSE [y |-> date.y, m |-> date.m, d |-> date.d]

formatDateForDB(date) ==
  LET istDate == ToIST(date)
      year    == ToStr(istDate.y)
      month   == padStart(ToStr(istDate.m), 2, "0")
      day     == padStart(ToStr(istDate.d), 2, "0")
  IN  year \o <<"-">> \o month \o <<"-">> \o day

(***************************************************************************)
(* parseDateFromDB                                                         *)
(***************************************************************************)
NaN == -1

isNaN(x) == x = NaN

\* new Date(): the current instant, the fallback of parseDateFromDB
Now == [kind |-> "now"]

RECURSIVE SplitFrom(_, _, _)
SplitFrom(s, sep, cur) ==
  IF s = <<>> THEN <<cur>>
  ELSE IF Head(s) = sep THEN <<cur>> \o SplitFrom(Tail(s), sep, <<>>)
  ELSE SplitFrom(Tail(s), sep, Append(cur, Head(s)))

\* String.prototype.split
split(s, sep) == SplitFrom(s, sep, <<>>)

RECURSIVE TrimLeft(_)
TrimLeft(s) == IF s # <<>> /\ Head(s) = " " THEN TrimLeft(Tail(s)) ELSE s

RECURSIVE TrimRight(_)
TrimRight(s) ==
  IF s # <<>> /\ s[Len(s)] = " " THEN TrimRight(SubSeq(s, 1, Len(s) - 1)) ELSE s

RECURSIVE DecValue(_, _)
DecValue(s, acc) ==
  IF s = <<>> THEN acc ELSE DecValue(Tail(s), 10 * acc + DigitVal(Head(s)))

\* Number(string): white space is trimmed, the empty string is 0, a string of
\* decimal digits is its value, anything else over the model's alphabet is NaN
Number(s) ==
  LET t == TrimRight(TrimLeft(s))
  IN  IF t = <<>> THEN 0
      ELSE IF \A i \in 1..Len(t) : IsDigit(t[i]) THEN DecValue(t, 0)
      ELSE NaN

\* MakeDate without the carry: the day kept although the month lacks it
MakeDateAsGiven(year, monthIndex, day) ==
  [kind |-> "date", y |-> year, m |-> monthIndex + 1, d |-> day]

RECURSIVE MakeDate(_, _, _)
\* Date.prototype.setFullYear(year, monthIndex, day) followed by setHours(0,0,0,0):
\* the local calendar day, a day past the end of the month carried into the next
MakeDate(year, monthIndex, day) ==
  IF day > DaysInMonth(year, monthIndex + 1)
  THEN IF monthIndex = 11
       THEN MakeDate(year + 1, 0, day - DaysInMonth(year, monthIndex + 1))
       ELSE MakeDate(year, monthIndex + 1, day - DaysInMonth(year, monthIndex + 1))
  ELSE [kind |-> "date", y |-> year, m |-> monthIndex + 1, d |-> day]

parseDateFromDB(dateString) ==
  IF dateString.type # "string" \/ dateString.val = <<>> THEN Now
  ELSE
    LET parts == split(dateString.val, "-") IN
    IF Len(parts) # 3 THEN Now
    ELSE
      LET year  == Number(parts[1])
          month == Number(parts[2])
          day   == Number(parts[3])
      IN  IF \/ isNaN(year) \/ isNaN(month) \/ isNaN(day)
             \/ year < 1900 \/ year > 2100
             \/ month < 1 \/ month > 12
             \/ day < 1 \/ day > 31
          THEN Now
          ELSE LET date == MakeDate(year, month - 1, day)
               IN  IF date.kind # "date" THEN Now ELSE date

(***************************************************************************)
(* Identity provider and backend outcome                                   *)
(***************************************************************************)
Users == {"u1", "u2"}

\* supabase.auth.getUser() resolving no user
NoUser == "none"

\* what supabase.auth.getUser() can resolve for a call
Resolved == Users \cup {NoUser}

\* { message: 'User not authenticated' }
NotAuthenticated == "unauthenticated"

\* an error object the backend answered a request with
BackendError == "backend"

\* error: null
NoError == "null"

\* data: null
NoData == <<>>

\* the call has not returned yet
Awaiting == "pending"

\* the record of a step: the operation, the user resolved for it, its key
\* argument, the error it returned (Awaiting while the call goes on), the number
\* of requests the step issued against the backend collections, the number of
\* requests of the call the backend has answered with an error, the data returned
Step(op, user, arg, error, requests, failed, data) ==
  [op |-> op, user |-> user, arg |-> arg, error |-> error,
   requests |-> requests, failed |-> failed, data |-> data]

Unauthenticated(op, arg, data) == Step(op, NoUser, arg, NotAuthenticated, 0, 0, data)

(***************************************************************************)
(* Transaction operations                                                  *)
(* A Transaction is [id, date, amount]; category, subcategory, description *)
(* and type are copied like amount and are not modelled separately.        *)
(***************************************************************************)
\* the row saveTransaction and bulkInsertTransactions build for the insert
TransactionRow(user, t, id) ==
  [id |-> id, user_id |-> user, date |-> formatDateForDB(t.date), amount |-> t.amount]

TxFrame == UNCHANGED <<budgets, calls, seen, parseIn, parseOut>>

saveTransaction(user, transaction, ok, maxId) ==
  /\ TxFrame
  /\ IF user = NoUser
     THEN /\ last' = Unauthenticated("saveTransaction", NoData, NoData)
          /\ UNCHANGED <<transactions, nextId>>
     ELSE IF ok
     THEN /\ nextId <= maxId
          /\ LET row == TransactionRow(user, transaction, nextId)
             IN  /\ transactions' = transactions \cup {row}
                 /\ last' = Step("saveTransaction", user, NoData, NoError, 1, 0, <<row>>)
          /\ nextId' = nextId + 1
     ELSE /\ last' = Step("saveTransaction", user, NoData, BackendError, 1, 1, NoData)
          /\ UNCHANGED <<transactions, nextId>>

\* the sequences holding each row of S once, latest date first
OrderedByDateDesc(S) ==
  {s \in [1..Cardinality(S) -> S] :
     /\ \A r \in S : \E i \in DOMAIN s : s[i] = r
     /\ \A i, j \in DOMAIN s : i < j => gte(s[i].date, s[j].date)}

\* the Transaction loadTransactions maps a row to
LoadedTransaction(t) ==
  [id |-> t.id,
   date |-> parseDateFromDB([type |-> "string", val |-> t.date]),
   amount |-> t.amount]

loadTransactions(user, ok) ==
  /\ TxFrame
  /\ UNCHANGED <<transactions, nextId>>
  /\ IF user = NoUser
     THEN last' = Step("loadTransactions", NoUser, NoData, NoError, 0, 0, <<>>)
     ELSE IF ok
     THEN \E data \in OrderedByDateDesc({t \in transactions : t.user_id = user}) :
            last' = Step("loadTransactions", user, NoData, NoError, 1, 0,
                         [i \in DOMAIN data |-> LoadedTransaction(data[i])])
     \* the error is logged, not returned
     ELSE last' = Step("loadTransactions", user, NoData, NoError, 1, 1, <<>>)

\* OwnedById without .eq('user_id', user.id)
AnyById(user, id) == {t \in transactions : t.id = id}

\* the rows .eq('id', id).eq('user_id', user) selects
OwnedById(user, id) == {t \in transactions : t.id = id /\ t.user_id = user}

updateTransaction(user, transaction, ok) ==
  /\ TxFrame
  /\ UNCHANGED nextId
  /\ IF user = NoUser
     THEN /\ last' = Unauthenticated("updateTransaction", transaction.id, NoData)
          /\ UNCHANGED transactions
     ELSE IF ok /\ OwnedById(user, transaction.id) # {}
     THEN LET new == [t \in OwnedById(user, transaction.id) |->
                        [t EXCEPT !.date = formatDateForDB(transaction.date),
                                  !.amount = transaction.amount]]
          IN  /\ transactions' = (transactions \ OwnedById(user, transaction.id))
                                   \cup {new[t] : t \in OwnedById(user, transaction.id)}
              /\ last' = Step("updateTransaction", user, transaction.id, NoError, 1, 0,
                              <<new[CHOOSE t \in OwnedById(user, transaction.id) : TRUE]>>)
     \* the request failed, or .single() found no row to return
     ELSE /\ last' = Step("updateTransaction", user, transaction.id, BackendError, 1, 1, NoData)
          /\ UNCHANGED transactions

\* deleteTransaction with an existence check: an id that matches no row is an error
deleteTransactionChecked(user, id, ok) ==
  /\ TxFrame
  /\ UNCHANGED nextId
  /\ IF user = NoUser
     THEN /\ last' = Unauthenticated("deleteTransaction", id, NoData)
          /\ UNCHANGED transactions
     ELSE IF ok
     THEN /\ transactions' = transactions \ OwnedById(user, id)
          /\ last' = Step("deleteTransaction", user, id,
                          IF OwnedById(user, id) = {} THEN BackendError ELSE NoError,
                          1, 0, NoData)
     ELSE /\ last' = Step("deleteTransaction", user, id, BackendError, 1, 1, NoData)
          /\ UNCHANGED transactions

deleteTransaction(user, id, ok) ==
  /\ TxFrame
  /\ UNCHANGED nextId
  /\ IF user = NoUser
     THEN /\ last' = Unauthenticated("deleteTransaction", id, NoData)
          /\ UNCHANGED transactions
     ELSE IF ok
     THEN /\ transactions' = transactions \ OwnedById(user, id)
          /\ last' = Step("deleteTransaction", user, id, NoError, 1, 0, NoData)
     ELSE /\ last' = Step("deleteTransaction", user, id, BackendError, 1, 1, NoData)
          /\ UNCHANGED transactions

bulkInsertTransactions(user, txs, ok, maxId) ==
  /\ TxFrame
  /\ IF user = NoUser
     THEN /\ last' = Unauthenticated("bulkInsertTransactions", NoData, NoData)
          /\ UNCHANGED <<transactions, nextId>>
     ELSE IF ok
     THEN /\ nextId + Len(txs) - 1 <= maxId
          /\ LET transactionsToInsert ==
                   [i \in DOMAIN txs |-> TransactionRow(user, txs[i], nextId + i - 1)]
             IN  /\ transactions' = transactions \cup
                                      {transactionsToInsert[i] : i \in DOMAIN txs}
                 /\ last' = Step("bulkInsertTransactions", user, NoData, NoError, 1, 0,
                                 transactionsToInsert)
          /\ nextId' = nextId + Len(txs)
     ELSE /\ last' = Step("bulkInsertTransactions", user, NoData, BackendError, 1, 1, NoData)
          /\ UNCHANGED <<transactions, nextId>>

startDate(month) == month \o <<"-", "0", "1">>

\* endDate with the upper bound at the 30th
endDate30(month) == month \o <<"-", "3", "0">>

endDate(month) == month \o <<"-", "3", "1">>

\* the rows .eq('user_id', user).gte('date', startDate).lte('date', endDate) selects
InMonthRange(user, month) ==
  {t \in transactions :
     /\ t.user_id = user
     /\ gte(t.date, startDate(month))
     /\ lte(t.date, endDate(month))}

deleteTransactionsByMonth(user, month, ok) ==
  /\ TxFrame
  /\ UNCHANGED nextId
  /\ IF user = NoUser
     THEN /\ last' = Unauthenticated("deleteTransactionsByMonth", month, NoData)
          /\ UNCHANGED transactions
     ELSE IF ok
     THEN /\ transactions' = transactions \ InMonthRange(user, month)
          /\ last' = Step("deleteTransactionsByMonth", user, month, NoError, 1, 0, NoData)
     ELSE /\ last' = Step("deleteTransactionsByMonth", user, month, BackendError, 1, 1, NoData)
          /\ UNCHANGED transactions

\* deleteAllTransactions without the check of the resolved user
deleteAllTransactionsUnguarded(user, ok) ==
  /\ TxFrame
  /\ UNCHANGED nextId
  /\ IF ok
     THEN /\ transactions' = {t \in transactions : t.user_id # user}
          /\ last' = Step("deleteAllTransactions", user, NoData, NoError, 1, 0, NoData)
     ELSE /\ last' = Step("deleteAllTransactions", user, NoData, BackendError, 1, 1, NoData)
          /\ UNCHANGED transactions

deleteAllTransactions(user, ok) ==
  /\ TxFrame
  /\ UNCHANGED nextId
  /\ IF user = NoUser
     THEN /\ last' = Unauthenticated("deleteAllTransactions", NoData, NoData)
          /\ UNCHANGED transactions
     ELSE IF ok
     THEN /\ transactions' = {t \in transactions : t.user_id # user}
          /\ last' = Step("deleteAllTransactions", user, NoData, NoError, 1, 0, NoData)
     ELSE /\ last' = Step("deleteAllTransactions", user, NoData, BackendError, 1, 1, NoData)
          /\ UNCHANGED transactions

(***************************************************************************)
(* Budget operations                                                       *)
(* A Budget is [category, amount, month].  The collection is a bag of rows *)
(* [user_id, category, amount, month]: the adapter never reads a budget    *)
(* row's identifier, and the collection states no uniqueness of its own.   *)
(***************************************************************************)
Idle == [pc |-> "idle"]

Callers == {"c1", "c2"}

\* most budget rows the backend stores at a time
MaxBudgetRows == 2

BudgetRow(user, b) ==
  [user_id |-> user, category |-> b.category, amount |-> b.amount, month |-> b.month]

RECURSIVE Distinct(_, _)
Distinct(s, acc) ==
  IF s = <<>> THEN acc
  ELSE IF \E i \in DOMAIN acc : acc[i] = Head(s) THEN Distinct(Tail(s), acc)
  ELSE Distinct(Tail(s), Append(acc, Head(s)))

\* [...new Set(budgets.map(b => b.month))]: each month once, in order of appearance
MonthsOf(bs) == Distinct([i \in DOMAIN bs |-> bs[i].month], <<>>)

RECURSIVE BagOfRows(_)
\* the rows of a sequence, each as often as the sequence holds it
BagOfRows(rows) ==
  IF rows = <<>> THEN EmptyBag
  ELSE SetToBag({Head(rows)}) (+) BagOfRows(Tail(rows))

\* the collection without the rows of the set matching
Without(B, matching) ==
  [r \in BagToSet(B) \ matching |-> B[r]]

\* DeleteMonth without .eq('month', month)
DeleteEveryMonth(B, user, month) ==
  LET matching == {r \in BagToSet(B) : r.user_id = user} IN Without(B, matching)

\* .from('budgets').delete().eq('user_id', user).eq('month', month)
DeleteMonth(B, user, month) ==
  LET matching == {r \in BagToSet(B) : r.user_id = user /\ r.month = month}
  IN  Without(B, matching)

\* .from('budgets').insert(rows): every row of the array is added
Insert(B, rows) == B (+) BagOfRows(rows)

\* .from('budgets').upsert(row): keyed by (user_id, category, month), the row
\* replaces the stored one when there is one and is inserted otherwise
Upsert(B, row) ==
  LET matching == {r \in BagToSet(B) :
                     /\ r.user_id = row.user_id
                     /\ r.category = row.category
                     /\ r.month = row.month}
  IN  Without(B, matching) (+) SetToBag({row})

\* what the other callers' calls in progress see of a step
NoInsert == [kind |-> "none"]

Mixed == [kind |-> "mixed"]

InsertOf(call) ==
  [kind |-> "insert", user |-> call.user, budgets |-> call.budgets,
   failed |-> call.failed]

\* caller c's step added rows: a call in progress elsewhere notes the first
\* insert that lands while it runs, and anything after it as a mix
NoteInsert(c, ev) ==
  [d \in Callers |->
     IF d = c \/ calls[d].pc = "idle" THEN NoInsert
     ELSE IF seen[d] = NoInsert THEN ev
     ELSE Mixed]

\* caller c's step removed rows
NoteDelete(c) ==
  [d \in Callers |->
     IF d = c THEN seen[c]
     ELSE IF calls[d].pc = "idle" \/ seen[d] = NoInsert THEN seen[d]
     ELSE Mixed]

BudgetFrame == UNCHANGED <<transactions, nextId, parseIn, parseOut>>

\* saveBudgets up to its first request: the user is resolved, the months collected
saveBudgetsBegin(c, user, bs) ==
  /\ BudgetFrame
  /\ calls[c].pc = "idle"
  /\ UNCHANGED budgets
  /\ IF user = NoUser
     THEN /\ last' = Unauthenticated("saveBudgets", NoData, NoData)
          /\ UNCHANGED <<calls, seen>>
     ELSE /\ calls' = [calls EXCEPT ![c] =
                         [pc |-> IF MonthsOf(bs) = <<>> THEN "insert" ELSE "delete",
                          user |-> user, budgets |-> bs, months |-> MonthsOf(bs),
                          failed |-> 0, late |-> {}]]
          /\ seen' = [seen EXCEPT ![c] = NoInsert]
          /\ last' = Step("saveBudgets", user, NoData, Awaiting, 0, 0, NoData)

\* one pass of the loop over months: the delete is awaited, its answer dropped
saveBudgetsDelete(c, ok) ==
  /\ BudgetFrame
  /\ calls[c].pc = "delete"
  /\ LET call  == calls[c]
         month == Head(call.months)
         rest  == Tail(call.months)
     IN  /\ budgets' = IF ok THEN DeleteMonth(budgets, call.user, month) ELSE budgets
         /\ calls' = [calls EXCEPT ![c] =
                        [call EXCEPT !.pc = IF rest = <<>> THEN "insert" ELSE "delete",
                                     !.months = rest,
                                     !.failed = IF ok THEN @ ELSE @ + 1,
                                     !.late = IF ok /\ seen[c] # NoInsert
                                              THEN @ \cup {month} ELSE @]]
         /\ seen' = IF ok THEN NoteDelete(c) ELSE seen
         /\ last' = Step("saveBudgets", call.user, month, Awaiting, 1,
                         IF ok THEN call.failed ELSE call.failed + 1, NoData)

\* the insert of the new budgets and the return of its answer
saveBudgetsInsert(c, ok) ==
  /\ BudgetFrame
  /\ calls[c].pc = "insert"
  /\ LET call == calls[c]
         budgetsToInsert ==
           [i \in DOMAIN call.budgets |-> BudgetRow(call.user, call.budgets[i])]
     IN  IF ok
         THEN /\ BagCardinality(budgets) + Len(call.budgets) <= MaxBudgetRows
              /\ budgets' = Insert(budgets, budgetsToInsert)
              /\ seen' = [NoteInsert(c, InsertOf(call)) EXCEPT ![c] = NoInsert]
              /\ last' = Step("saveBudgets", call.user, NoData, NoError, 1,
                              call.failed, budgetsToInsert)
         ELSE /\ UNCHANGED budgets
              /\ seen' = [seen EXCEPT ![c] = NoInsert]
              /\ last' = Step("saveBudgets", call.user, NoData, BackendError, 1,
                              call.failed + 1, NoData)
  /\ calls' = [calls EXCEPT ![c] = Idle]

\* the sequences holding each row of bag B as often as B does, latest month first
OrderedByMonthDesc(B) ==
  {s \in [1..BagCardinality(B) -> BagToSet(B)] :
     /\ \A r \in BagToSet(B) : Cardinality({i \in DOMAIN s : s[i] = r}) = B[r]
     /\ \A i, j \in DOMAIN s : i < j => gte(s[i].month, s[j].month)}

\* the Budget loadBudgets maps a row to
LoadedBudget(b) == [category |-> b.category, amount |-> b.amount, month |-> b.month]

\* loadBudgets without the check of the resolved user
loadBudgetsUnguarded(user, ok) ==
  /\ BudgetFrame
  /\ UNCHANGED <<budgets, calls, seen>>
  /\ IF ok
     THEN LET matching == {r \in BagToSet(budgets) : r.user_id # user}
          IN  \E data \in OrderedByMonthDesc(Without(budgets, matching)) :
                last' = Step("loadBudgets", user, NoData, NoError, 1, 0,
                             [i \in DOMAIN data |-> LoadedBudget(data[i])])
     ELSE last' = Step("loadBudgets", user, NoData, NoError, 1, 1, <<>>)

loadBudgets(user, ok) ==
  /\ BudgetFrame
  /\ UNCHANGED <<budgets, calls, seen>>
  /\ IF user = NoUser
     THEN last' = Step("loadBudgets", NoUser, NoData, NoError, 0, 0, <<>>)
     ELSE IF ok
     THEN LET matching == {r \in BagToSet(budgets) : r.user_id # user}
          IN  \E data \in OrderedByMonthDesc(Without(budgets, matching)) :
                last' = Step("loadBudgets", user, NoData, NoError, 1, 0,
                             [i \in DOMAIN data |-> LoadedBudget(data[i])])
     \* the error is logged, not returned
     ELSE last' = Step("loadBudgets", user, NoData, NoError, 1, 1, <<>>)

updateBudget(user, budget, ok) ==
  /\ BudgetFrame
  /\ UNCHANGED calls
  /\ IF user = NoUser
     THEN /\ last' = Unauthenticated("updateBudget", NoData, NoData)
          /\ UNCHANGED <<budgets, seen>>
     ELSE IF ok
     THEN /\ BagCardinality(Upsert(budgets, BudgetRow(user, budget))) <= MaxBudgetRows
          /\ budgets' = Upsert(budgets, BudgetRow(user, budget))
          /\ seen' = [d \in Callers |-> IF calls[d].pc = "idle" THEN NoInsert ELSE Mixed]
          /\ last' = Step("updateBudget", user, NoData, NoError, 1, 0,
                          <<BudgetRow(user, budget)>>)
     ELSE /\ last' = Step("updateBudget", user, NoData, BackendError, 1, 1, NoData)
          /\ UNCHANGED <<budgets, seen>>

(***************************************************************************)
(* Callers' inputs                                                         *)
(***************************************************************************)
\* most transactions the backend ever stores in a run of Spec or SpecTx
MaxTx == 2

\* most transactions the backend ever stores in a run of SpecMonth
MaxMonthTx == 1

\* a caller's month key, YYYY-MM
MonthKey(y, m) == ToStr(y) \o <<"-">> \o padStart(ToStr(m), 2, "0")

Instant(y, m, d, min) == [y |-> y, m |-> m, d |-> d, min |-> min]

\* late on 29 Feb 2024 UTC is already 1 Mar in IST
LeapDay == Instant(2024, 2, 29, 0)

LeapDayLate == Instant(2024, 2, 29, 1200)

\* the first and the last day of every month of 2024, and the last day late
\* enough in UTC to be the first day of the next month in IST
YearDates ==
  UNION {{Instant(2024, m, 1, 0),
          Instant(2024, m, DaysInMonth(2024, m), 0),
          Instant(2024, m, DaysInMonth(2024, m), 1200)} : m \in 1..12}

YearMonths == {MonthKey(2024, m) : m \in 1..12}

Transactions(dates, amounts, ids) ==
  {[id |-> i, date |-> d, amount |-> a] : i \in ids, d \in dates, a \in amounts}

Budgets(categories, amounts, months) ==
  {[category |-> c, amount |-> a, month |-> m] :
     c \in categories, a \in amounts, m \in months}

\* the lists of one budget, or of two: the second may repeat the first one's
\* category and month
Lists(bs) == {<<b>> : b \in bs} \cup {<<b1, b2>> : b1 \in bs, b2 \in bs}

January == MonthKey(2024, 1)

February == MonthKey(2024, 2)

Pending == [kind |-> "pending"]

Init ==
  /\ transactions = {}
  /\ nextId = 1
  /\ budgets = EmptyBag
  /\ calls = [c \in Callers |-> Idle]
  /\ seen = [c \in Callers |-> NoInsert]
  /\ last = Step("init", NoUser, NoData, NoError, 0, 0, NoData)
  /\ parseIn = [type |-> "undefined"]
  /\ parseOut = Pending

(***************************************************************************)
(* One caller that awaits each call before it makes the next one, for any  *)
(* resolved user or none, against a backend that may answer with an error  *)
(***************************************************************************)
Returned == \A c \in Callers : calls[c].pc = "idle"

SaveTransaction(dates, amounts) ==
  /\ Returned
  /\ \E user \in Resolved, t \in Transactions(dates, amounts, {0}), ok \in BOOLEAN :
       saveTransaction(user, t, ok, MaxTx)

LoadTransactions ==
  /\ Returned
  /\ \E user \in Resolved, ok \in BOOLEAN : loadTransactions(user, ok)

UpdateTransaction(dates, amounts) ==
  /\ Returned
  /\ \E user \in Resolved, t \in Transactions(dates, amounts, 1..MaxTx), ok \in BOOLEAN :
       updateTransaction(user, t, ok)

DeleteTransaction ==
  /\ Returned
  /\ \E user \in Resolved, id \in 1..MaxTx, ok \in BOOLEAN :
       deleteTransaction(user, id, ok)

BulkInsertTransactions(dates, amounts) ==
  /\ Returned
  /\ \E user \in Resolved, ok \in BOOLEAN :
       \E t1 \in Transactions(dates, amounts, {0}), t2 \in Transactions(dates, amounts, {0}) :
         bulkInsertTransactions(user, <<t1, t2>>, ok, MaxTx)

DeleteTransactionsByMonth(months) ==
  /\ Returned
  /\ \E user \in Resolved, month \in months, ok \in BOOLEAN :
       deleteTransactionsByMonth(user, month, ok)

DeleteAllTransactions ==
  /\ Returned
  /\ \E user \in Resolved, ok \in BOOLEAN : deleteAllTransactions(user, ok)

SaveBudgetsBegin(lists) ==
  \E user \in Resolved, bs \in lists : saveBudgetsBegin("c1", user, bs)

SaveBudgetsDelete == \E ok \in BOOLEAN : saveBudgetsDelete("c1", ok)

SaveBudgetsInsert == \E ok \in BOOLEAN : saveBudgetsInsert("c1", ok)

LoadBudgets ==
  /\ Returned
  /\ \E user \in Resolved, ok \in BOOLEAN : loadBudgets(user, ok)

UpdateBudget(bs) ==
  /\ Returned
  /\ \E user \in Resolved, b \in bs, ok \in BOOLEAN : updateBudget(user, b, ok)

(***************************************************************************)
(* Spec: every operation of the adapter on both collections                *)
(***************************************************************************)
Next ==
  \/ SaveTransaction({LeapDayLate}, {5})
  \/ LoadTransactions
  \/ UpdateTransaction({LeapDayLate}, {7})
  \/ DeleteTransaction
  \/ BulkInsertTransactions({LeapDayLate}, {5})
  \/ DeleteTransactionsByMonth({MonthKey(2024, 3)})
  \/ DeleteAllTransactions
  \/ SaveBudgetsBegin({<<b>> : b \in Budgets({"food"}, {10}, {January})})
  \/ SaveBudgetsDelete
  \/ SaveBudgetsInsert
  \/ LoadBudgets
  \/ UpdateBudget(Budgets({"food"}, {10}, {January}))

Spec == Init /\ [][Next]_vars

(***************************************************************************)
(* SpecTx: the transaction operations                                      *)
(***************************************************************************)
NextTx ==
  \/ SaveTransaction({LeapDay, LeapDayLate}, {5, 7})
  \/ LoadTransactions
  \/ UpdateTransaction({LeapDay, LeapDayLate}, {5, 7})
  \/ DeleteTransaction
  \/ BulkInsertTransactions({LeapDay, LeapDayLate}, {5})
  \/ DeleteTransactionsByMonth({MonthKey(2024, 2), MonthKey(2024, 3)})
  \/ DeleteAllTransactions

SpecTx == Init /\ [][NextTx]_vars

(***************************************************************************)
(* SpecBudget: the budget operations                                       *)
(***************************************************************************)
NextBudget ==
  \/ SaveBudgetsBegin(Lists(Budgets({"food", "rent"}, {10}, {January, February})))
  \/ SaveBudgetsDelete
  \/ SaveBudgetsInsert
  \/ LoadBudgets
  \/ UpdateBudget(Budgets({"food"}, {10, 20}, {January, February}))

SpecBudget == Init /\ [][NextBudget]_vars

(***************************************************************************)
(* SpecMonth: transactions dated over a whole year, deleted month by month *)
(***************************************************************************)
SaveInYear ==
  \E user \in Users, t \in Transactions(YearDates, {5}, {0}) :
    saveTransaction(user, t, TRUE, MaxMonthTx)

DeleteInYear ==
  \E user \in Users, month \in YearMonths : deleteTransactionsByMonth(user, month, TRUE)

NextMonth == SaveInYear \/ DeleteInYear

SpecMonth == Init /\ [][NextMonth]_vars

(***************************************************************************)
(* SpecRace: two callers of one signed-in user save budgets concurrently   *)
(* against a backend that answers every request without error              *)
(***************************************************************************)
RaceBegin ==
  \E c \in Callers, bs \in Lists(Budgets({"food", "rent"}, {10}, {January, February})) :
    saveBudgetsBegin(c, "u1", bs)

RaceDelete == \E c \in Callers : saveBudgetsDelete(c, TRUE)

RaceInsert == \E c \in Callers : saveBudgetsInsert(c, TRUE)

NextRace == RaceBegin \/ RaceDelete \/ RaceInsert

SpecRace == Init /\ [][NextRace]_vars

(***************************************************************************)
(* SpecParse: parseDateFromDB applied to one stored value                  *)
(***************************************************************************)
Chars(n) == ToStr(n)

\* the parts a stored date string is put together from
ParseParts ==
  {<<>>, <<"a">>, <<" ", "7">>, <<"2", "a">>}
    \cup {Chars(n) : n \in {0, 1, 2, 4, 12, 13, 28, 29, 30, 31, 32}}
    \cup {<<"0">> \o Chars(n) : n \in {0, 2, 9}}
    \cup {Chars(n) : n \in {1899, 1900, 2000, 2023, 2024, 2100, 2101}}

RECURSIVE Join(_)
\* the parts of a sequence with "-" between them
Join(parts) ==
  IF Len(parts) = 1 THEN parts[1]
  ELSE parts[1] \o <<"-">> \o Join(Tail(parts))

ParseInputs ==
  {[type |-> "null"], [type |-> "undefined"]}
    \cup {[type |-> "string", val |-> Join(ps)] :
            ps \in [1..3 -> ParseParts] \cup [1..2 -> ParseParts] \cup [1..1 -> ParseParts]}
    \cup {[type |-> "string", val |-> Join(ps \o <<p>>)] :
            ps \in [1..3 -> {Chars(2024), Chars(2), Chars(30)}], p \in ParseParts}

InitParse ==
  /\ transactions = {}
  /\ nextId = 1
  /\ budgets = EmptyBag
  /\ calls = [c \in Callers |-> Idle]
  /\ seen = [c \in Callers |-> NoInsert]
  /\ last = Step("init", NoUser, NoData, NoError, 0, 0, NoData)
  /\ parseIn \in ParseInputs
  /\ parseOut = Pending

ParseDate ==
  /\ parseOut = Pending
  /\ parseOut' = parseDateFromDB(parseIn)
  /\ UNCHANGED <<transactions, nextId, budgets, calls, seen, last, parseIn>>

SpecParse == InitParse /\ [][ParseDate]_vars

(***************************************************************************)
(* Properties                                                              *)
(***************************************************************************)
WriteOps ==
  {"saveTransaction", "updateTransaction", "deleteTransaction",
   "bulkInsertTransactions", "deleteTransactionsByMonth", "deleteAllTransactions",
   "saveBudgets", "updateBudget"}

ReadOps == {"loadTransactions", "loadBudgets"}

\* C1: a write operation called while no user is resolved returns a non-null
\* error, issues no request against the backend collections and leaves the
\* transactions and the budgets as they were.
C1_UnauthenticatedWriteRefused ==
  [][(last'.op \in WriteOps /\ last'.user = NoUser)
       => /\ last'.error # NoError
          /\ last'.error # Awaiting
          /\ last'.requests = 0
          /\ transactions' = transactions
          /\ budgets' = budgets]_vars

\* an unauthenticated write has just been refused while both collections hold rows
C1_Witness ==
  /\ last.op = "deleteAllTransactions"
  /\ last.user = NoUser
  /\ last.error = NotAuthenticated
  /\ transactions # {}
  /\ budgets # EmptyBag

\* C2: a read operation called while no user is resolved returns an empty
\* collection and issues no request against the backend collections.
C2_UnauthenticatedReadEmpty ==
  (last.op \in ReadOps /\ last.user = NoUser)
    => (last.data = <<>> /\ last.requests = 0)

\* an unauthenticated loadBudgets has returned while both collections hold rows
C2_Witness ==
  /\ last.op = "loadBudgets"
  /\ last.user = NoUser
  /\ transactions # {}
  /\ budgets # EmptyBag

\* C3: owner scoping.  Every row a step adds carries the user resolved for the
\* call, every row a step removes or changes belongs to that user, and every row
\* a step returns is one of that user's rows.
C3_OwnerScoped ==
  [][LET user == last'.user
         data == last'.data
     IN  /\ \A t \in transactions' \ transactions : t.user_id = user /\ user \in Users
         /\ \A t \in transactions \ transactions' : t.user_id = user
         /\ \A r \in BagToSet(budgets) \cup BagToSet(budgets') :
              CopiesIn(r, budgets') # CopiesIn(r, budgets)
                => (r.user_id = user /\ user \in Users)
         /\ last'.op \in {"saveTransaction", "updateTransaction",
                          "bulkInsertTransactions", "saveBudgets", "updateBudget"}
              => \A i \in DOMAIN data : data[i].user_id = user
         /\ last'.op = "loadTransactions"
              => \A i \in DOMAIN data :
                   \E t \in transactions : t.id = data[i].id /\ t.user_id = user
         /\ last'.op = "loadBudgets"
              => \A i \in DOMAIN data :
                   \E r \in BagToSet(budgets) :
                     /\ r.user_id = user
                     /\ r.category = data[i].category
                     /\ r.amount = data[i].amount
                     /\ r.month = data[i].month]_vars

\* u1 has deleted a transaction by id while u2 holds a transaction and a budget
C3_Witness ==
  /\ last.op = "deleteTransaction"
  /\ last.user = "u1"
  /\ last.error = NoError
  /\ Cardinality(transactions) < nextId - 1
  /\ \E t \in transactions : t.user_id = "u2"
  /\ \E r \in BagToSet(budgets) : r.user_id = "u2"

\* C4: the budgets collection holds at most one row for each
\* (user, category, month), in every state the budget operations reach.
C4_OneBudgetPerKey ==
  \A r1, r2 \in BagToSet(budgets) :
    (r1.user_id = r2.user_id /\ r1.category = r2.category /\ r1.month = r2.month)
      => (r1 = r2 /\ CopiesIn(r1, budgets) = 1)

\* the number of budgets of list bs that make row r for user
CountIn(r, user, bs) == Cardinality({i \in DOMAIN bs : BudgetRow(user, bs[i]) = r})

\* every budget row that is stored or that either of two lists makes for user
RowsAbout(B, user, bs1, bs2) ==
  BagToSet(B) \cup {BudgetRow(user, bs1[i]) : i \in DOMAIN bs1}
              \cup {BudgetRow(user, bs2[i]) : i \in DOMAIN bs2}

\* caller c's insert is landing after another call of the same user, which
\* touched one of the same months, landed its insert while c's call ran
RaceEnds(c) ==
  /\ calls[c].pc = "insert"
  /\ calls'[c].pc = "idle"
  /\ seen[c].kind = "insert"
  /\ seen[c].user = calls[c].user
  /\ seen[c].failed = 0
  /\ calls[c].failed = 0
  /\ last'.error = NoError

Overlap(c) ==
  {m \in {January, February} :
     /\ \E i \in DOMAIN calls[c].budgets : calls[c].budgets[i].month = m
     /\ \E i \in DOMAIN seen[c].budgets : seen[c].budgets[i].month = m}

\* C5 as stated: after two concurrent saveBudgets calls of one user, the rows
\* of every month both touched are exactly the input of the call that
\* inserted last.
C5_LastInsertWins ==
  [][\A c \in Callers :
       RaceEnds(c) =>
         \A m \in Overlap(c) :
           \A r \in RowsAbout(budgets', calls[c].user, calls[c].budgets, seen[c].budgets) :
             (r.user_id = calls[c].user /\ r.month = m)
               => CopiesIn(r, budgets') = CountIn(r, calls[c].user, calls[c].budgets)]_vars

\* C5 amended: the rows of a month both calls touched are the input of the
\* call that inserted last when that call deleted the month after the other
\* call's insert, and the inputs of both calls together when it deleted the
\* month before.
C5_LastInsertWinsOrMerge ==
  [][\A c \in Callers :
       RaceEnds(c) =>
         \A m \in Overlap(c) :
           \A r \in RowsAbout(budgets', calls[c].user, calls[c].budgets, seen[c].budgets) :
             (r.user_id = calls[c].user /\ r.month = m)
               => CopiesIn(r, budgets') =
                    CountIn(r, calls[c].user, calls[c].budgets)
                      + (IF m \in calls[c].late THEN 0
                         ELSE CountIn(r, seen[c].user, seen[c].budgets))]_vars

\* a saveBudgets call has just returned without error and a month of its input
\* holds more rows than its input has for that month: the other call's rows
C5_Witness ==
  /\ last.op = "saveBudgets"
  /\ last.error = NoError
  /\ \E m \in {January, February} :
       /\ \E i \in DOMAIN last.data : last.data[i].month = m
       /\ Cardinality({i \in DOMAIN last.data : last.data[i].month = m})
            < Cardinality({r \in BagToSet(budgets) : r.user_id = last.user /\ r.month = m})

\* C6: when saveBudgets fails in its insert phase the user is left with no
\* budget row for any month of the input, and no step of the call changes a
\* row of a month that is not in the input.
C6_FailedSaveLeavesMonthsEmpty ==
  [][\A c \in Callers :
       (calls[c].pc # "idle" /\ calls'[c] # calls[c]) =>
         /\ \A r \in BagToSet(budgets) \cup BagToSet(budgets') :
              (\A i \in DOMAIN calls[c].budgets : calls[c].budgets[i].month # r.month)
                => CopiesIn(r, budgets') = CopiesIn(r, budgets)
         /\ (calls'[c].pc = "idle" /\ last'.error # NoError) =>
              \A r \in BagToSet(budgets') :
                r.user_id = calls[c].user
                  => \A i \in DOMAIN calls[c].budgets : calls[c].budgets[i].month # r.month]_vars

\* C7: a write operation that had a backend request answered with an error
\* returns a non-null error.
C7_BackendErrorReturned ==
  (last.op \in WriteOps /\ last.error # Awaiting /\ last.failed > 0)
    => last.error # NoError

\* the month a well-formed YYYY-MM-DD string lies in
MonthOfDate(date) == SubSeq(date, 1, 7)

\* C8: a successful deleteTransactionsByMonth(month) removes exactly the
\* calling user's rows dated in that month: no row dated in another month,
\* and no row of another user.
C8_DeletesExactlyTheMonth ==
  [][(last'.op = "deleteTransactionsByMonth" /\ last'.user \in Users
        /\ last'.error = NoError)
       => transactions' =
            {t \in transactions :
               ~(t.user_id = last'.user /\ MonthOfDate(t.date) = last'.arg)}]_vars

\* u1 has deleted December 2024 and the one row ever inserted is gone
C8_Witness ==
  /\ last.op = "deleteTransactionsByMonth"
  /\ last.user = "u1"
  /\ last.error = NoError
  /\ last.arg = MonthKey(2024, 12)
  /\ nextId = 2
  /\ transactions = {}

\* C9: deleteTransaction(id) by a resolved user, when the backend answers
\* without error, returns no error; it removes the caller's row with that id
\* and nothing else, and when the id is unknown or another user's it removes
\* nothing.
C9_DeleteByIdIsExact ==
  [][(last'.op = "deleteTransaction" /\ last'.user \in Users /\ last'.failed = 0)
       => /\ last'.error = NoError
          /\ last'.requests = 1
          /\ transactions' =
               {t \in transactions : ~(t.id = last'.arg /\ t.user_id = last'.user)}
          /\ Cardinality(transactions \ transactions') <= 1
          /\ budgets' = budgets]_vars

\* u1 has deleted by an id that is u2's: no error, and u2's row is still there
C9_Witness ==
  /\ last.op = "deleteTransaction"
  /\ last.user = "u1"
  /\ last.error = NoError
  /\ \E t \in transactions : t.id = last.arg /\ t.user_id = "u2"
  /\ Cardinality(transactions) = nextId - 1

\* the positions of "-" in a string
Dashes(s) == {i \in DOMAIN s : s[i] = "-"}

\* the three parts of a string with two "-"
PartsOf(s) ==
  LET d1 == CHOOSE i \in Dashes(s) : \A j \in Dashes(s) : i <= j
      d2 == CHOOSE i \in Dashes(s) : \A j \in Dashes(s) : j <= i
  IN  <<SubSeq(s, 1, d1 - 1), SubSeq(s, d1 + 1, d2 - 1), SubSeq(s, d2 + 1, Len(s))>>

\* a part is numeric when, white space around it aside, it is decimal digits
Unpadded(p) == SelectSeq(p, LAMBDA ch : ch # " ")

IsNumeric(p) ==
  /\ Unpadded(p) # <<>>
  /\ \A i \in DOMAIN p : IsDigit(p[i]) \/ p[i] = " "
  /\ \A i, j, k \in DOMAIN p : (i < j /\ j < k /\ p[i] # " " /\ p[k] # " ") => p[j] # " "

RECURSIVE Pow10(_)
Pow10(n) == IF n = 0 THEN 1 ELSE 10 * Pow10(n - 1)

RECURSIVE SumTo(_, _)
SumTo(f, n) == IF n = 0 THEN 0 ELSE f[n] + SumTo(f, n - 1)

ValueOf(p) ==
  LET ds == Unpadded(p)
  IN  SumTo([i \in DOMAIN ds |-> DigitVal(ds[i]) * Pow10(Len(ds) - i)], Len(ds))

\* three numeric parts: year in 1900..2100, month in 1..12, day in 1..31
InRange(v) ==
  /\ v.type = "string"
  /\ Cardinality(Dashes(v.val)) = 2
  /\ \A k \in 1..3 : IsNumeric(PartsOf(v.val)[k])
  /\ ValueOf(PartsOf(v.val)[1]) \in 1900..2100
  /\ ValueOf(PartsOf(v.val)[2]) \in 1..12
  /\ ValueOf(PartsOf(v.val)[3]) \in 1..31

MonthLengths == <<31, 28, 31, 30, 31, 30, 31, 31, 30, 31, 30, 31>>

LengthOfMonth(y, m) ==
  IF m = 2 /\ y % 4 = 0 /\ (y % 100 # 0 \/ y % 400 = 0) THEN 29 ELSE MonthLengths[m]

\* C10 as stated: three numeric parts in range give the date with exactly that
\* year, month and day; every other input gives the current instant.
C10_ParsedAsGiven ==
  parseOut # Pending =>
    IF InRange(parseIn)
    THEN parseOut = [kind |-> "date",
                     y |-> ValueOf(PartsOf(parseIn.val)[1]),
                     m |-> ValueOf(PartsOf(parseIn.val)[2]),
                     d |-> ValueOf(PartsOf(parseIn.val)[3])]
    ELSE parseOut = Now

\* C10 amended: three numeric parts in range never fall back to the current
\* instant; they give that year, month and day when the month has the day,
\* and otherwise the day carried into the following month; every other
\* input gives the current instant.
C10_ParsedWithCarry ==
  parseOut # Pending =>
    IF InRange(parseIn)
    THEN LET y == ValueOf(PartsOf(parseIn.val)[1])
             m == ValueOf(PartsOf(parseIn.val)[2])
             d == ValueOf(PartsOf(parseIn.val)[3])
         IN  parseOut =
               IF d <= LengthOfMonth(y, m)
               THEN [kind |-> "date", y |-> y, m |-> m, d |-> d]
               ELSE [kind |-> "date", y |-> y, m |-> m + 1, d |-> d - LengthOfMonth(y, m)]
    ELSE parseOut = Now

\* "2024-02-30" has been parsed, and the result is 1 March 2024
C10_Witness ==
  /\ parseIn = [type |-> "string", val |-> Join(<<Chars(2024), <<"0", "2">>, Chars(30)>>)]
  /\ parseOut = [kind |-> "date", y |-> 2024, m |-> 3, d |-> 1]

====
